---- MODULE Spec2Model ----
(***************************************************************************)
(* Model of Image_Encryption.py: the pixel transform (XOR of every channel *)
(* with a one-byte key, then a row-local mirrored swap) and the GUI        *)
(* callbacks that validate the inputs and run the transform on a file.     *)
(*                                                                         *)
(* Strings the code inspects character by character (paths, key strings)   *)
(* are sequences of one-character strings.                                 *)
(***************************************************************************)
EXTENDS Integers, Sequences, FiniteSets, TLC

VARIABLES
    \* ---- pure transform (SpecTransform, SpecStage2) ----
    img,          \* the decoded RGB input image
    key,          \* the integer key handed to transform_image
    pass,         \* how many times transform_image has been applied
    xored,        \* the pixel buffer between stage 1 and stage 2 of the latest pass
    out,          \* the image produced by the latest pass
    first,        \* the image produced by the first pass
    shifted,      \* the outputs for key + 256 and key - 256
    \* ---- stage 2 executed step by step in any order (SpecStage2) ----
    pixels,       \* the pixel buffer being mutated in place
    iters,        \* per loop iteration <<x, y>>: its progress and its locals p1, p2
    touched,      \* the cells <<x, y>> stage 2 has read or written so far
    \* ---- GUI application (Spec) ----
    fs,           \* the file system: path -> file content
    image_path,   \* StringVar image_path
    key_value,    \* StringVar key_value
    status_text,  \* StringVar status_text
    message,      \* the last message box shown
    origin,       \* per written file: the action, key and source data that made it
    ret,          \* what validate_inputs did in the last action
    writes        \* number of files saved so far

tVars == <<img, key, pass, xored, out, first, shifted>>
sVars == <<pixels, iters, touched>>
aVars == <<fs, image_path, key_value, status_text, message, origin, ret, writes>>
vars == <<img, key, pass, xored, out, first, shifted, pixels, iters, touched,
          fs, image_path, key_value, status_text, message, origin, ret, writes>>

None == "None"

(***************************************************************************)
(* Bounds                                                                  *)
(***************************************************************************)
MaxW == 3
MaxH == 2
MaxStepW == 6
MaxStepH == 2
MaxWrites == 2

\* The pixel values the bounded images are drawn from.
PixelValues == { <<10, 20, 30>>, <<40, 50, 60>> }

\* The integer keys tried: negative, zero, multiples of 256, odd, even, above 255.
Keys == { -256, -3, 0, 5, 255, 258 }

(***************************************************************************)
(* Images                                                                  *)
(***************************************************************************)
Cells(w, h) == (0 .. w - 1) \X (0 .. h - 1)

Images == UNION { { [mode |-> "RGB", w |-> w, h |-> h, px |-> f] :
                      f \in [Cells(w, h) -> PixelValues] } :
                  w \in 0 .. MaxW, h \in 0 .. MaxH }

\* The 2x1 image of the worked example.
ExampleImage == [mode |-> "RGB", w |-> 2, h |-> 1,
                 px |-> [c \in Cells(2, 1) |->
                           IF c[1] = 0 THEN <<10, 20, 30>> ELSE <<40, 50, 60>>]]

(***************************************************************************)
(* transform_image, lines 24-44                                            *)
(***************************************************************************)
\* Python's ^ on two non-negative integers.
RECURSIVE Xor(_, _)
Xor(a, b) == IF a = 0 THEN b
             ELSE IF b = 0 THEN a
             ELSE (((a % 2) + (b % 2)) % 2) + (2 * Xor(a \div 2, b \div 2))

XorAddMod(a, b) == (a + b) % 256

XorAdd(a, b) == a + b

\* r ^= key (lines 31-33)
XorChannel(c, k) == Xor(c, k)

\* lines 29-35: the pixel with every channel XOR-ed with the key
XorPixel(p, k) == <<XorChannel(p[1], k), XorChannel(p[2], k), XorChannel(p[3], k)>>

KeyByteOffByOne(k) == k % 255

\* line 24: key = key % 256 (Python's % is non-negative for a positive modulus)
KeyByte(k) == k % 256

\* lines 28-35: the inner loop of stage 1, from column x on
RECURSIVE Stage1Row(_, _, _, _, _)
Stage1Row(buf, width, y, k, x) ==
    IF x >= width THEN buf
    ELSE Stage1Row([buf EXCEPT ![<<x, y>>] = XorPixel(@, k)], width, y, k, x + 1)

\* lines 27-35: the outer loop of stage 1, from row y on
RECURSIVE Stage1(_, _, _, _, _)
Stage1(buf, width, height, k, y) ==
    IF y >= height THEN buf
    ELSE Stage1(Stage1Row(buf, width, y, k, 0), width, height, k, y + 1)

SwapColsAll(width) == width

\* line 39: range(width // 2)
SwapCols(width) == width \div 2

SwapPredNoRow(x, y, k) == ((x + k) % 2) = 0

\* line 40
SwapPred(x, y, k) == ((x + y + k) % 2) = 0

MirrorHalf(width, x) == (width \div 2) + x

\* line 41
Mirror(width, x) == width - 1 - x

SwapNoTemp(buf, x, x2, y) ==
    [buf EXCEPT ![<<x, y>>] = buf[<<x2, y>>], ![<<x2, y>>] = buf[<<x2, y>>]]

\* lines 42-44: p1, p2 are read first, then both cells are written
Swap(buf, x, x2, y) ==
    [buf EXCEPT ![<<x, y>>] = buf[<<x2, y>>], ![<<x2, y>>] = buf[<<x, y>>]]

\* lines 39-44: the inner loop of stage 2, from column x on
RECURSIVE Stage2Row(_, _, _, _, _)
Stage2Row(buf, width, y, k, x) ==
    IF x >= SwapCols(width) THEN buf
    ELSE Stage2Row(IF SwapPred(x, y, k) THEN Swap(buf, x, Mirror(width, x), y) ELSE buf,
                   width, y, k, x + 1)

\* lines 38-44: the outer loop of stage 2, from row y on
RECURSIVE Stage2(_, _, _, _, _)
Stage2(buf, width, height, k, y) ==
    IF y >= height THEN buf
    ELSE Stage2(Stage2Row(buf, width, y, k, 0), width, height, k, y + 1)

\* lines 24-35: the buffer after stage 1
AfterStage1(image, k) == Stage1(image.px, image.w, image.h, KeyByte(k), 0)

\* lines 21-44: the image that is saved, for a decoded RGB image and a key
transform_image(image, k) ==
    [image EXCEPT !.px = Stage2(AfterStage1(image, k), image.w, image.h, KeyByte(k), 0)]

(***************************************************************************)
(* SpecTransform: transform_image applied to a bounded image, twice with   *)
(* the same key, and once each with key + 256 and key - 256.               *)
(***************************************************************************)
\* The variables a specification does not use keep these values.
NoImage == [mode |-> "RGB", w |-> 0, h |-> 0, px |-> <<>>]

NotShifted == [set |-> FALSE, plus |-> NoImage, minus |-> NoImage, kplus |-> 0, kminus |-> 0]

TransformIdle ==
    /\ img = NoImage /\ key = 0 /\ pass = 0 /\ xored = <<>>
    /\ out = NoImage /\ first = NoImage /\ shifted = NotShifted

StepIdle == pixels = <<>> /\ iters = <<>> /\ touched = {}

AppIdle ==
    /\ fs = <<>> /\ image_path = <<>> /\ key_value = <<>>
    /\ status_text = <<>> /\ message = <<>> /\ origin = <<>>
    /\ ret = <<>> /\ writes = 0

InitTransform ==
    /\ img \in Images
    /\ key \in Keys
    /\ pass = 0
    /\ xored = img.px
    /\ out = img
    /\ first = NoImage
    /\ shifted = NotShifted
    /\ StepIdle
    /\ AppIdle

\* One call of transform_image on the latest image with the same key.
Apply ==
    /\ pass < 2
    /\ xored' = AfterStage1(out, key)
    /\ out' = transform_image(out, key)
    /\ first' = IF pass = 0 THEN out' ELSE first
    /\ pass' = pass + 1
    /\ UNCHANGED <<img, key, shifted>>
    /\ UNCHANGED sVars
    /\ UNCHANGED aVars

\* transform_image on the input image with the key moved by one period.
ApplyShifted ==
    /\ ~ shifted.set
    /\ shifted' = [set |-> TRUE,
                   plus |-> transform_image(img, key + 256),
                   minus |-> transform_image(img, key - 256),
                   kplus |-> KeyByte(key + 256),
                   kminus |-> KeyByte(key - 256)]
    /\ UNCHANGED <<img, key, pass, xored, out, first>>
    /\ UNCHANGED sVars
    /\ UNCHANGED aVars

NextTransform == Apply \/ ApplyShifted

SpecTransform == InitTransform /\ [][NextTransform]_vars

(***************************************************************************)
(* SpecStage2: the iterations of the stage 2 loops (lines 38-44) executed  *)
(* one step at a time, in any order and interleaving.                      *)
(***************************************************************************)
\* A pixel that is different for every n below 256.
PatternPixel(n) == <<n, ((7 * n) + 3) % 256, 255 - n>>

\* Images whose pixels all differ, so that every permutation is visible.
StepImages == { [mode |-> "RGB", w |-> w, h |-> h,
                 px |-> [c \in Cells(w, h) |-> PatternPixel(c[1] + (w * c[2]) + s)]] :
                w \in 0 .. MaxStepW, h \in 0 .. MaxStepH, s \in 0 .. 1 }

\* lines 38-39: the iterations <<x, y>> of the stage 2 loops
Iterations(width, height) == (0 .. SwapCols(width) - 1) \X (0 .. height - 1)

InitStage2 ==
    /\ img \in StepImages
    /\ key \in Keys
    /\ pass = 0
    /\ xored = AfterStage1(img, key)
    /\ out = NoImage
    /\ first = NoImage
    /\ shifted = NotShifted
    /\ pixels = xored
    /\ iters = [c \in Iterations(img.w, img.h) |-> [st |-> "todo", p1 |-> <<>>, p2 |-> <<>>]]
    /\ touched = {}
    /\ AppIdle

\* line 40, predicate false: the iteration ends without touching the buffer
SkipStep(c) ==
    /\ iters[c].st = "todo"
    /\ ~ SwapPred(c[1], c[2], KeyByte(key))
    /\ iters' = [iters EXCEPT ![c].st = "done"]
    /\ UNCHANGED <<pixels, touched>>
    /\ UNCHANGED tVars
    /\ UNCHANGED aVars

\* lines 40-43, predicate true: p1 and p2 are read
ReadStep(c) ==
    /\ iters[c].st = "todo"
    /\ SwapPred(c[1], c[2], KeyByte(key))
    /\ LET x2 == Mirror(img.w, c[1]) IN
         /\ iters' = [iters EXCEPT ![c] = [st |-> "read",
                                           p1 |-> pixels[<<c[1], c[2]>>],
                                           p2 |-> pixels[<<x2, c[2]>>]]]
         /\ touched' = touched \cup { <<c[1], c[2]>>, <<x2, c[2]>> }
    /\ UNCHANGED pixels
    /\ UNCHANGED tVars
    /\ UNCHANGED aVars

\* line 44: both cells are written from the locals
WriteStep(c) ==
    /\ iters[c].st = "read"
    /\ LET x2 == Mirror(img.w, c[1]) IN
         pixels' = [pixels EXCEPT ![<<c[1], c[2]>>] = iters[c].p2,
                                  ![<<x2, c[2]>>] = iters[c].p1]
    /\ iters' = [iters EXCEPT ![c].st = "done"]
    /\ UNCHANGED touched
    /\ UNCHANGED tVars
    /\ UNCHANGED aVars

NextStage2 ==
    \E c \in DOMAIN iters : SkipStep(c) \/ ReadStep(c) \/ WriteStep(c)

SpecStage2 == InitStage2 /\ [][NextStage2]_vars

(***************************************************************************)
(* Properties of the transform                                             *)
(***************************************************************************)
\* The reference recolouring of a pixel: every channel XOR k.
RefXorPixel(p, k) == <<Xor(p[1], k), Xor(p[2], k), Xor(p[3], k)>>

\* The number of columns of row y of buffer buf that hold the pixel v.
CountInRow(buf, width, y, v) == Cardinality({ x \in 0 .. width - 1 : buf[<<x, y>>] = v })

\* C1 (involution): once transform_image has been applied twice with the same
\* key, the buffer equals the input image at every pixel position and channel,
\* for every width and height from 0 and every integer key.
C1_Involution ==
    pass = 2 =>
        /\ out.w = img.w /\ out.h = img.h
        /\ DOMAIN out.px = DOMAIN img.px
        /\ \A c \in DOMAIN img.px : \A i \in 1 .. 3 : out.px[c][i] = img.px[c][i]

C1_Witness ==
    /\ pass = 2 /\ img.w >= 2 /\ img.h >= 2 /\ key < 0
    /\ \E c \in DOMAIN img.px : first.px[c] # RefXorPixel(img.px[c], key % 256)

\* C2 (key normalization): the outputs for key, key + 256 and key - 256 are the
\* same buffer, and the key used for the XOR mask and the swap parity is in
\* 0..255.
C2_KeyNormalization ==
    (pass >= 1 /\ shifted.set) =>
        /\ first = shifted.plus
        /\ first = shifted.minus
        /\ KeyByte(key) \in 0 .. 255
        /\ shifted.kplus \in 0 .. 255 /\ shifted.kminus \in 0 .. 255
        /\ shifted.kplus = KeyByte(key) /\ shifted.kminus = KeyByte(key)

C2_Witness ==
    /\ pass = 1 /\ shifted.set /\ key < 0 /\ img.w >= 2 /\ img.h >= 1
    /\ first.px # img.px

\* C3 (reference result): with k = key mod 256, for every row y and column
\* x < W div 2 with mirror x2 = W - 1 - x, if (x + y + k) mod 2 = 0 the output
\* at (x, y) is the input at (x2, y) XOR k and the output at (x2, y) is the
\* input at (x, y) XOR k; otherwise both are their own input XOR k.  The 2x1
\* example image with key 5 gives [(15,17,27),(45,55,57)].
C3_Reference ==
    pass >= 1 =>
        LET k == key % 256 IN
        /\ \A y \in 0 .. img.h - 1 : \A x \in 0 .. (img.w \div 2) - 1 :
              LET x2 == img.w - 1 - x IN
              IF (x + y + k) % 2 = 0
              THEN /\ first.px[<<x, y>>] = RefXorPixel(img.px[<<x2, y>>], k)
                   /\ first.px[<<x2, y>>] = RefXorPixel(img.px[<<x, y>>], k)
              ELSE /\ first.px[<<x, y>>] = RefXorPixel(img.px[<<x, y>>], k)
                   /\ first.px[<<x2, y>>] = RefXorPixel(img.px[<<x2, y>>], k)
        /\ (img = ExampleImage /\ key = 5) =>
              first.px = [c \in Cells(2, 1) |->
                            IF c[1] = 0 THEN <<15, 17, 27>> ELSE <<45, 55, 57>>]

C3_Witness == pass = 1 /\ img = ExampleImage /\ key = 5

\* C4 (shape preservation): the output has the width and height of the input,
\* every output row is a rearrangement of the same input row with every channel
\* XOR-ed with key mod 256, and every channel stays in 0..255.
C4_Shape ==
    pass >= 1 =>
        LET k == key % 256 IN
        /\ first.w = img.w /\ first.h = img.h
        /\ DOMAIN first.px = Cells(img.w, img.h)
        /\ \A y \in 0 .. img.h - 1 :
              LET recoloured == [c \in DOMAIN img.px |-> RefXorPixel(img.px[c], k)] IN
              \A x \in 0 .. img.w - 1 :
                 /\ CountInRow(first.px, img.w, y, first.px[<<x, y>>])
                      = CountInRow(recoloured, img.w, y, first.px[<<x, y>>])
                 /\ CountInRow(first.px, img.w, y, recoloured[<<x, y>>])
                      = CountInRow(recoloured, img.w, y, recoloured[<<x, y>>])
        /\ \A c \in DOMAIN first.px : \A i \in 1 .. 3 : first.px[c][i] \in 0 .. 255

C4_Witness ==
    /\ pass = 1 /\ img.w >= 3 /\ img.h >= 2
    /\ first.px # xored
    /\ xored # img.px

\* C6 (identity key): with a key that is a multiple of 256 every colour value is
\* unchanged, and the pixels at (x, y) and (W - 1 - x, y) are exchanged for
\* exactly those x < W div 2 with (x + y) mod 2 = 0.
C6_IdentityKey ==
    (pass >= 1 /\ key % 256 = 0) =>
        /\ (pass = 1 => xored = img.px)
        /\ \A y \in 0 .. img.h - 1 : \A x \in 0 .. img.w - 1 :
              LET x2 == img.w - 1 - x
                  lo == IF x < x2 THEN x ELSE x2
              IN  first.px[<<x, y>>] =
                    IF x # x2 /\ (lo + y) % 2 = 0 THEN img.px[<<x2, y>>] ELSE img.px[<<x, y>>]

C6_Witness ==
    /\ pass = 1 /\ key = -256 /\ img.w >= 3 /\ img.h >= 2
    /\ first.px # img.px

(***************************************************************************)
(* Properties of stage 2 run step by step                                  *)
(***************************************************************************)
AllDone == \A c \in DOMAIN iters : iters[c].st = "done"

\* C5 (odd-width midpoint): for odd width, stage 2 never reads or writes the
\* middle column W div 2, and after the whole transform the pixel there is the
\* input pixel XOR-ed channel-wise with key mod 256.
C5_Midpoint ==
    (img.w % 2 = 1) =>
        \A y \in 0 .. img.h - 1 :
           /\ <<img.w \div 2, y>> \notin touched
           /\ pixels[<<img.w \div 2, y>>] = RefXorPixel(img.px[<<img.w \div 2, y>>], key % 256)

C5_Witness ==
    /\ img.w % 2 = 1 /\ img.w >= 3 /\ img.h >= 1
    /\ iters # <<>> /\ AllDone /\ touched # {}

\* C10 (order independence): the column pairs (x, W - 1 - x) of a row satisfy
\* x < W - 1 - x and are pairwise disjoint, the swap decision is a function of
\* (x, y, k) alone, and whatever the order and interleaving of the steps, the
\* final buffer is the one the sequential loops produce.
C10_OrderIndependent ==
    /\ \A c \in DOMAIN iters : c[1] < Mirror(img.w, c[1])
    /\ \A c, d \in DOMAIN iters :
          (c # d /\ c[2] = d[2]) =>
             {c[1], Mirror(img.w, c[1])} \cap {d[1], Mirror(img.w, d[1])} = {}
    /\ \A c \in DOMAIN iters :
          (iters[c].st # "todo") =>
             ({c, <<Mirror(img.w, c[1]), c[2]>>} \subseteq touched) = ((c[1] + c[2] + (key % 256)) % 2 = 0)
    /\ AllDone => pixels = Stage2(xored, img.w, img.h, KeyByte(key), 0)

C10_Witness ==
    /\ iters # <<>> /\ AllDone /\ img.w >= 6 /\ img.h >= 2
    /\ \E c, d \in DOMAIN iters : c # d /\ c[2] = d[2] /\ {c, d} \subseteq touched

(***************************************************************************)
(* Strings, paths and key parsing used by the GUI callbacks                *)
(***************************************************************************)
Whitespace == { " " }

\* str.strip()
RECURSIVE LStrip(_)
LStrip(s) == IF s # <<>> /\ Head(s) \in Whitespace THEN LStrip(Tail(s)) ELSE s

RECURSIVE RStrip(_)
RStrip(s) == IF s # <<>> /\ s[Len(s)] \in Whitespace THEN RStrip(SubSeq(s, 1, Len(s) - 1)) ELSE s

Strip(s) == RStrip(LStrip(s))

\* str.lstrip("-") (line 172)
RECURSIVE LStripDash(_)
LStripDash(s) == IF s # <<>> /\ Head(s) = "-" THEN LStripDash(Tail(s)) ELSE s

\* The value of each decimal digit character.
DigitVal == [c \in {"0", "1", "2", "3", "4", "5", "6", "7", "8", "9"} |->
               CASE c = "0" -> 0 [] c = "1" -> 1 [] c = "2" -> 2 [] c = "3" -> 3
                 [] c = "4" -> 4 [] c = "5" -> 5 [] c = "6" -> 6 [] c = "7" -> 7
                 [] c = "8" -> 8 [] c = "9" -> 9]

DecimalChars == DOMAIN DigitVal

\* Characters for which str.isdigit() is true but which int() rejects:
\* "sup2" stands for the one character SUPERSCRIPT TWO.
OtherDigitChars == { "sup2" }

\* str.isdigit(): non-empty and every character is a digit (line 172)
IsDigit(s) == s # <<>> /\ \A i \in 1 .. Len(s) : s[i] \in DecimalChars \cup OtherDigitChars

\* The number a non-empty string of decimal digits denotes.
RECURSIVE DigitsValue(_)
DigitsValue(s) == IF s = <<>> THEN 0
                  ELSE (10 * DigitsValue(SubSeq(s, 1, Len(s) - 1))) + DigitVal[s[Len(s)]]

IsDecimal(s) == s # <<>> /\ \A i \in 1 .. Len(s) : s[i] \in DecimalChars

\* int(str) (line 176): surrounding whitespace, one optional sign, decimal digits;
\* anything else raises ValueError.
PyInt(str) ==
    LET s == Strip(str)
        signed == s # <<>> /\ Head(s) \in {"-", "+"}
        digits == IF signed THEN Tail(s) ELSE s
    IN  IF IsDecimal(digits)
        THEN [raised |-> FALSE,
              val |-> IF signed /\ Head(s) = "-" THEN 0 - DigitsValue(digits)
                      ELSE DigitsValue(digits)]
        ELSE [raised |-> TRUE, val |-> 0]

\* str.rfind(ch): the last position of ch, 0 when absent (positions from 1)
RFind(s, ch) == IF \E i \in 1 .. Len(s) : s[i] = ch
                THEN CHOOSE i \in 1 .. Len(s) : s[i] = ch /\ \A j \in i + 1 .. Len(s) : s[j] # ch
                ELSE 0

\* os.path.splitext(path) (lines 184, 199): <<base, ext>>; the extension starts
\* at the last dot of the last component unless only dots precede it there.
splitext(path) ==
    LET sepIndex == RFind(path, "/")
        dotIndex == RFind(path, ".")
    IN  IF dotIndex > sepIndex /\ \E i \in sepIndex + 1 .. dotIndex - 1 : path[i] # "."
        THEN <<SubSeq(path, 1, dotIndex - 1), SubSeq(path, dotIndex, Len(path))>>
        ELSE <<path, <<>>>>

\* os.path.basename(path) (lines 154, 189, 204)
basename(path) == SubSeq(path, RFind(path, "/") + 1, Len(path))

ENCRYPTED == <<"_", "e", "n", "c", "r", "y", "p", "t", "e", "d">>
DECRYPTED == <<"_", "d", "e", "c", "r", "y", "p", "t", "e", "d">>

OutputSamePath(path, suffix) == path

\* lines 184-185, 199-200: base + suffix + ext
OutputPath(path, suffix) == splitext(path)[1] \o suffix \o splitext(path)[2]

(***************************************************************************)
(* Image files                                                             *)
(***************************************************************************)
\* A file that is not an image.
Garbage == [mode |-> "none", w |-> 0, h |-> 0, px |-> <<>>]

\* str.lower() on the characters that occur in the extensions
Lower(c) == CASE c = "P" -> "p" [] c = "N" -> "n" [] c = "G" -> "g" [] OTHER -> c

LowerStr(s) == [i \in 1 .. Len(s) |-> Lower(s[i])]

\* The extensions Image.save knows a (lossless) format for.
KnownExtensions == { <<".", "p", "n", "g">> }

\* Image.open(input_path) (line 20) raises when the file is not an image.
OpenRaises(content) == content.mode \notin {"RGB", "RGBA"}

\* .convert("RGB") (line 20): an alpha channel is dropped
ConvertRGB(image) ==
    [image EXCEPT !.mode = "RGB", !.px = [c \in DOMAIN image.px |-> SubSeq(image.px[c], 1, 3)]]

\* img.save(output_path) (line 46) picks the format from the lower-cased
\* extension and raises before writing when it knows none.
SaveRaises(output_path) == LowerStr(splitext(output_path)[2]) \notin KnownExtensions

\* transform_image(input_path, output_path, key), lines 10-46, on file system fsys
TransformFile(fsys, input_path, output_path, k) ==
    IF OpenRaises(fsys[input_path])
    THEN [raised |-> TRUE, err |-> "cannot identify image file", fs |-> fsys]
    ELSE IF SaveRaises(output_path)
    THEN [raised |-> TRUE, err |-> "unknown file extension", fs |-> fsys]
    ELSE [raised |-> FALSE, err |-> "",
          fs |-> (output_path :> transform_image(ConvertRGB(fsys[input_path]), k)) @@ fsys]

(***************************************************************************)
(* Spec: the GUI callbacks                                                 *)
(***************************************************************************)
S_a_png == <<"a", ".", "p", "n", "g">>
S_a_PNG == <<"a", ".", "P", "N", "G">>
S_a == <<"a">>
S_dot_png == <<".", "p", "n", "g">>
S_dir_a == <<"d", ".", "x", "/", "a">>
S_b_png == <<"b", ".", "p", "n", "g">>

\* A 2x2 image with an alpha channel.
AlphaImage == [mode |-> "RGBA", w |-> 2, h |-> 2,
               px |-> [c \in Cells(2, 2) |-> <<10 + c[1], 20 + c[2], 30, 128>>]]

\* A 3x2 RGB image whose pixels all differ.
SampleImage == [mode |-> "RGB", w |-> 3, h |-> 2,
                px |-> [c \in Cells(3, 2) |-> PatternPixel(c[1] + (3 * c[2]))]]

\* The one file that exists when the application starts: <<path, content>>.
InitFiles == { <<S_a_png, SampleImage>>, <<S_a_png, AlphaImage>>, <<S_a_png, Garbage>>,
               <<S_a_PNG, ExampleImage>>, <<S_a, SampleImage>>,
               <<S_dot_png, SampleImage>>, <<S_dir_a, SampleImage>> }

\* What the user may type into the key entry.
KeyInputs == { <<>>, <<" ", "5">>, <<"-", "5">>, <<"-">>, <<"-", "-", "5">>, <<"x">>, <<"sup2">> }

\* What the user may type into the path entry; existing files are also browsed.
PathInputs == { <<>>, S_b_png, <<" ">> \o S_a_png \o <<" ">> }

NoMessage == [box |-> "none", text |-> "", path |-> <<>>, err |-> ""]
ShowError(text) == [box |-> "showerror", text |-> text, path |-> <<>>, err |-> ""]
NoRet == [kind |-> "none", path |-> <<>>, key |-> 0, key_str |-> <<>>]

Init ==
    /\ \E f \in InitFiles : fs = (f[1] :> f[2])
    /\ image_path = <<>>
    /\ key_value = <<>>
    /\ status_text = [text |-> "(c) Gokul.", path |-> <<>>]
    /\ message = NoMessage
    /\ origin = <<>>
    /\ ret = NoRet
    /\ writes = 0
    /\ TransformIdle
    /\ StepIdle

\* The user edits the path entry (line 106); a message box is modal, so the
\* one the last callback showed has been dismissed.
TypePath(p) ==
    /\ image_path' = p
    /\ image_path' # image_path
    /\ message' = NoMessage
    /\ ret' = NoRet
    /\ UNCHANGED <<fs, key_value, status_text, origin, writes>>
    /\ UNCHANGED tVars
    /\ UNCHANGED sVars

\* The user edits the key entry (line 115).
TypeKey(s) ==
    /\ key_value' = s
    /\ key_value' # key_value
    /\ message' = NoMessage
    /\ ret' = NoRet
    /\ UNCHANGED <<fs, image_path, status_text, origin, writes>>
    /\ UNCHANGED tVars
    /\ UNCHANGED sVars

\* browse_file, lines 149-154, when the dialog returns the existing file filename
browse_file(filename) ==
    /\ filename # <<>>
    /\ image_path' = filename
    /\ status_text' = [text |-> "Selected image: ", path |-> basename(filename)]
    /\ message' = NoMessage
    /\ ret' = NoRet
    /\ UNCHANGED <<fs, key_value, origin, writes>>
    /\ UNCHANGED tVars
    /\ UNCHANGED sVars

\* validate_inputs, lines 156-177: kind "error" is a message box and
\* (None, None), kind "ok" is (path, key), kind "raised" is an exception that
\* leaves the function.
validate_inputs(fsys, path_var, key_var) ==
    LET path == Strip(path_var)
        key_str == Strip(key_var)
        Error(text) == [kind |-> "error", text |-> text, path |-> <<>>, key |-> 0,
                        key_str |-> key_str]
    IN  IF path = <<>> THEN Error("Please select an image file.")
        ELSE IF path \notin DOMAIN fsys THEN Error("File not found. Please check the path.")
        ELSE IF key_str = <<>> THEN Error("Please enter a numeric key.")
        ELSE IF ~ IsDigit(LStripDash(key_str)) THEN Error("Key must be a valid integer.")
        ELSE IF PyInt(key_str).raised
        THEN [kind |-> "raised", text |-> "ValueError", path |-> <<>>, key |-> 0,
              key_str |-> key_str]
        ELSE [kind |-> "ok", text |-> "", path |-> path, key |-> PyInt(key_str).val,
              key_str |-> key_str]

\* encrypt_action (lines 179-192) and decrypt_action (lines 194-207) are the
\* same code up to the suffix and the words of the messages.
Action(suffix, op, done, failed, saved) ==
    LET r == validate_inputs(fs, image_path, key_value) IN
    /\ ret' = r
    /\ IF r.kind = "raised"
       THEN \* the exception leaves the callback: nothing else happens
            UNCHANGED <<fs, status_text, message, origin, writes>>
       ELSE IF r.kind = "error"
       THEN /\ message' = ShowError(r.text)
            /\ UNCHANGED <<fs, status_text, origin, writes>>
       ELSE LET output_path == OutputPath(r.path, suffix)
                t == TransformFile(fs, r.path, output_path, r.key)
            IN  IF t.raised
                THEN /\ message' = [box |-> "showerror", text |-> failed,
                                    path |-> <<>>, err |-> t.err]
                     /\ UNCHANGED <<fs, status_text, origin, writes>>
                ELSE /\ writes < MaxWrites
                     /\ fs' = t.fs
                     /\ writes' = writes + 1
                     /\ origin' = (output_path :> [op |-> op, key |-> r.key, src |-> r.path,
                                                   srcData |-> fs[r.path]]) @@ origin
                     /\ status_text' = [text |-> saved, path |-> basename(output_path)]
                     /\ message' = [box |-> "showinfo", text |-> done,
                                    path |-> output_path, err |-> ""]
    /\ UNCHANGED <<image_path, key_value>>
    /\ UNCHANGED tVars
    /\ UNCHANGED sVars

\* lines 179-192
encrypt_action ==
    Action(ENCRYPTED, "encrypt", "Image encrypted and saved as:", "Encryption failed:",
           "Encrypted image saved as: ")

\* lines 194-207
decrypt_action ==
    Action(DECRYPTED, "decrypt", "Image decrypted and saved as:", "Decryption failed:",
           "Decrypted image saved as: ")

Next ==
    \/ \E p \in PathInputs : TypePath(p)
    \/ \E s \in KeyInputs : TypeKey(s)
    \/ \E f \in DOMAIN fs : browse_file(f)
    \/ encrypt_action
    \/ decrypt_action

Spec == Init /\ [][Next]_vars

(***************************************************************************)
(* Properties of the GUI callbacks                                         *)
(***************************************************************************)
\* A file d made from a file e with the key that made e, while e still holds
\* the data d was made from.
MadeBackFrom(d, e) ==
    /\ d \in DOMAIN origin
    /\ e = origin[d].src
    /\ e \in DOMAIN origin
    /\ origin[d].key = origin[e].key
    /\ origin[d].srcData = fs[e]

C8_NewPath ==
    [][ (fs' # fs) =>
          LET path == Strip(image_path) IN
          \E suffix \in {ENCRYPTED, DECRYPTED} :
             LET written == splitext(path)[1] \o suffix \o splitext(path)[2] IN
             /\ path \in DOMAIN fs
             /\ written # path
             /\ splitext(written)[2] = splitext(path)[2]
             /\ DOMAIN fs' = DOMAIN fs \cup {written}
             /\ \A q \in DOMAIN fs : q # written => fs'[q] = fs[q]
             /\ fs'[path] = fs[path] ]_vars

C8_Witness ==
    /\ writes >= 2
    /\ message.box = "showinfo"
    /\ \E d \in DOMAIN origin : origin[d].op = "decrypt" /\ fs[d] # fs[origin[d].src]

\* A string that denotes a signed integer: one optional sign, then digits.
IsSignedInteger(s) ==
    IsDecimal(IF s # <<>> /\ Head(s) \in {"-", "+"} THEN Tail(s) ELSE s)

SignedValue(s) ==
    IF Head(s) = "-" THEN 0 - DigitsValue(Tail(s))
    ELSE IF Head(s) = "+" THEN DigitsValue(Tail(s))
    ELSE DigitsValue(s)

\* C9 (key validation reports): every call of validate_inputs ends with an
\* error message and (None, None), or with (path, key) where key is the integer
\* the key string denotes; it never raises, and a key string that is not a
\* signed integer is reported with a message while no file is written.
C9_ValidationReports ==
    [][ (ret' # NoRet) =>
          LET key_str == Strip(key_value) IN
          /\ ret'.kind \in {"error", "ok"}
          /\ ret'.kind = "error" => (message'.box = "showerror" /\ fs' = fs)
          /\ ret'.kind = "ok" => (IsSignedInteger(key_str) /\ ret'.key = SignedValue(key_str))
          /\ ~ IsSignedInteger(key_str) =>
                (ret'.kind = "error" /\ message'.box = "showerror" /\ fs' = fs) ]_vars

====
